---- MODULE Spec2Model ----
(***************************************************************************)
(* Model of the AI Emotion Analyzer HTTP service (server.js and the        *)
(* reduced server of the second source file).                              *)
(*                                                                         *)
(* A JavaScript string is a sequence of one-character strings, so that     *)
(* toLowerCase, includes, split and trim are computed character by         *)
(* character as the engine computes them.                                  *)
(***************************************************************************)
EXTENDS Integers, Sequences, FiniteSets, TLC

(***************************************************************************)
(* Bounds                                                                  *)
(***************************************************************************)
\* longest transcript enumerated over Alphabet (the named samples are longer)
MaxLen == 3
\* concurrent request-handling contexts
MaxReqs == 2

(***************************************************************************)
(* State                                                                   *)
(***************************************************************************)
VARIABLES
  reqs,       \* one record per request-handling context of the server
  calls,      \* history: every call of analyzeVoiceEmotion / processText
  fnInput,    \* the transcript given to the two components called directly
  fnDone,     \* which of the two components have returned for fnInput
  fnEmotion,  \* the object returned by analyzeVoiceEmotion(fnInput)
  fnStats     \* the object returned by processText(fnInput)

vars == <<reqs, calls, fnInput, fnDone, fnEmotion, fnStats>>

(***************************************************************************)
(* JavaScript string primitives                                            *)
(***************************************************************************)
UpperChars == <<"A","B","C","D","E","F","G","H","I","J","K","L","M",
                "N","O","P","Q","R","S","T","U","V","W","X","Y","Z">>
LowerChars == <<"a","b","c","d","e","f","g","h","i","j","k","l","m",
                "n","o","p","q","r","s","t","u","v","w","x","y","z">>

\* characters matched by \s and removed by trim()
WhiteSpace == {" ", "\t", "\n"}
\* characters matched by [.!?]
Terminators == {".", "!", "?"}

toLowerCaseChar(c) ==
  IF \E i \in 1..Len(UpperChars) : UpperChars[i] = c
    THEN LowerChars[CHOOSE i \in 1..Len(UpperChars) : UpperChars[i] = c]
    ELSE c

\* String.prototype.toLowerCase
toLowerCase(s) == [i \in 1..Len(s) |-> toLowerCaseChar(s[i])]

\* does keyword occur in s starting at position i
MatchAt(s, keyword, i) ==
  /\ i + Len(keyword) - 1 <= Len(s)
  /\ \A k \in 1..Len(keyword) : s[i + k - 1] = keyword[k]

RECURSIVE indexOfFrom(_, _, _)
\* left-to-right search of String.prototype.includes; 0 when absent
indexOfFrom(s, keyword, i) ==
  IF i + Len(keyword) - 1 > Len(s) THEN 0
  ELSE IF MatchAt(s, keyword, i) THEN i
  ELSE indexOfFrom(s, keyword, i + 1)

includesWholeToken(s, keyword) ==
  \E i \in 1..Len(s) :
    /\ MatchAt(s, keyword, i)
    /\ (i = 1 \/ s[i - 1] \in WhiteSpace)
    /\ (i + Len(keyword) > Len(s) \/ s[i + Len(keyword)] \in WhiteSpace)

\* String.prototype.includes
includes(s, keyword) == indexOfFrom(s, keyword, 1) # 0

RECURSIVE SkipRun(_, _, _)
\* first position at or after i whose character is not a delimiter
SkipRun(s, i, delims) ==
  IF i > Len(s) \/ s[i] \notin delims THEN i
  ELSE SkipRun(s, i + 1, delims)

RECURSIVE SplitFrom(_, _, _, _)
SplitFrom(s, i, cur, delims) ==
  IF i > Len(s) THEN <<cur>>
  ELSE IF s[i] \in delims
    THEN <<cur>> \o SplitFrom(s, SkipRun(s, i, delims), <<>>, delims)
    ELSE SplitFrom(s, i + 1, Append(cur, s[i]), delims)

splitDropEmpty(s, delims) ==
  SelectSeq(SplitFrom(s, 1, <<>>, delims), LAMBDA t : Len(t) > 0)

\* String.prototype.split with the regular expression /[delims]+/ : every
\* maximal run of delimiters separates two fragments, empty fragments kept
split(s, delims) == SplitFrom(s, 1, <<>>, delims)

RECURSIVE trimStart(_)
trimStart(s) ==
  IF Len(s) > 0 /\ Head(s) \in WhiteSpace THEN trimStart(Tail(s)) ELSE s

RECURSIVE trimEnd(_)
trimEnd(s) ==
  IF Len(s) > 0 /\ s[Len(s)] \in WhiteSpace
    THEN trimEnd(SubSeq(s, 1, Len(s) - 1)) ELSE s

\* String.prototype.trim
trim(s) == trimEnd(trimStart(s))

\* Number.prototype.toFixed(2) of the quotient num / den (den > 0): the
\* nearest multiple of 1/100, the larger one on a tie, rendered as integer
\* part and two fraction digits.  A tie needs den to be a multiple of 8;
\* eighths are exact doubles, so the tie rule applies as written for every
\* den below 40.
toFixed2(num, den) ==
  LET h == (200 * num + den) \div (2 * den)
  IN  [int |-> h \div 100, frac |-> h % 100]

(***************************************************************************)
(* 2. EMOTION DETECTION: analyzeVoiceEmotion                               *)
(***************************************************************************)
emotionKeywords == [
  joy |-> <<
    <<"h","a","p","p","y">>,
    <<"e","x","c","i","t","e","d">>,
    <<"w","o","n","d","e","r","f","u","l">>,
    <<"a","m","a","z","i","n","g">>,
    <<"g","r","e","a","t">> >>,
  sadness |-> <<
    <<"s","a","d">>,
    <<"u","n","h","a","p","p","y">>,
    <<"t","e","r","r","i","b","l","e">>,
    <<"a","w","f","u","l">>,
    <<"d","o","w","n">> >>,
  anger |-> <<
    <<"a","n","g","r","y">>,
    <<"f","u","r","i","o","u","s">>,
    <<"m","a","d">>,
    <<"u","p","s","e","t">>,
    <<"i","r","r","i","t","a","t","e","d">> >>,
  fear |-> <<
    <<"s","c","a","r","e","d">>,
    <<"a","f","r","a","i","d">>,
    <<"t","e","r","r","i","f","i","e","d">>,
    <<"w","o","r","r","i","e","d">>,
    <<"a","n","x","i","o","u","s">> >> ]

\* enumeration order of "for (let emotion in emotionKeywords)"
emotionOrder == <<"joy", "sadness", "anger", "fear">>

\* the object literal {}
EmptyObject == [k \in {} |-> FALSE]

\* obj[key] = value
SetProperty(obj, key, value) ==
  [k \in (DOMAIN obj) \cup {key} |-> IF k = key THEN value ELSE obj[k]]

RECURSIVE someFrom(_, _, _)
\* Array.prototype.some(keyword => lowerText.includes(keyword)), left to
\* right, stopping at the first hit
someFrom(keywords, i, lowerText) ==
  IF i > Len(keywords) THEN FALSE
  ELSE IF includes(lowerText, keywords[i]) THEN TRUE
  ELSE someFrom(keywords, i + 1, lowerText)

detectCategorySticky(detectedEmotions, emotion, lowerText) ==
  SetProperty(detectedEmotions, emotion,
              \/ someFrom(emotionKeywords[emotion], 1, lowerText)
              \/ \E c \in calls : /\ c.fn = "analyzeVoiceEmotion"
                                  /\ c.output[emotion])

detectCategorySparse(detectedEmotions, emotion, lowerText) ==
  IF someFrom(emotionKeywords[emotion], 1, lowerText)
    THEN SetProperty(detectedEmotions, emotion, TRUE)
    ELSE detectedEmotions

\* body of the for-in loop
detectCategory(detectedEmotions, emotion, lowerText) ==
  SetProperty(detectedEmotions, emotion,
              someFrom(emotionKeywords[emotion], 1, lowerText))

RECURSIVE detectLoop(_, _, _)
detectLoop(detectedEmotions, k, lowerText) ==
  IF k > Len(emotionOrder) THEN detectedEmotions
  ELSE detectLoop(detectCategory(detectedEmotions, emotionOrder[k], lowerText),
                  k + 1, lowerText)

analyzeVoiceEmotionCaseSensitive(text) == detectLoop(EmptyObject, 1, text)

analyzeVoiceEmotion(text) == detectLoop(EmptyObject, 1, toLowerCase(text))

(***************************************************************************)
(* 4. TEXT PROCESSING & ANALYSIS: processText                              *)
(***************************************************************************)
\* JavaScript number division followed by toFixed(2)
divideToFixed2(num, den) ==
  IF den # 0 THEN [kind |-> "finite"] @@ toFixed2(num, den)
  ELSE IF num = 0 THEN [kind |-> "NaN", int |-> 0, frac |-> 0]
  ELSE [kind |-> "Infinity", int |-> 0, frac |-> 0]

\* new Set(array).size
SetSize(array) == Cardinality({array[i] : i \in 1..Len(array)})

\* array.map(w => w.toLowerCase())
mapToLowerCase(array) == [i \in 1..Len(array) |-> toLowerCase(array[i])]

\* array.filter(s => s.trim().length > 0)
filterNonBlank(array) == SelectSeq(array, LAMBDA s : Len(trim(s)) > 0)

processTextCaseSensitive(text) ==
  LET words == split(text, WhiteSpace)
      sentences == split(text, Terminators)
  IN  [ wordCount |-> Len(words),
        sentenceCount |-> Len(filterNonBlank(sentences)),
        averageWordLength |-> divideToFixed2(Len(text), Len(words)),
        uniqueWords |-> SetSize(words) ]

processText(text) ==
  LET words == split(text, WhiteSpace)
      sentences == split(text, Terminators)
  IN  [ wordCount |-> Len(words),
        sentenceCount |-> Len(filterNonBlank(sentences)),
        averageWordLength |-> divideToFixed2(Len(text), Len(words)),
        uniqueWords |-> SetSize(mapToLowerCase(words)) ]

(***************************************************************************)
(* Transcripts under analysis                                              *)
(***************************************************************************)
Alphabet == {"s", "a", "d", "m", "A", " ", "."}

\* every string over Alphabet of length at most n
BoundedStrings(n) == UNION {[1..k -> Alphabet] : k \in 0..n}

EmptyTranscript == <<>>
HAPPY_day == <<"H","A","P","P","Y"," ","d","a","y">>
happy_day == <<"h","a","p","p","y"," ","d","a","y">>
unhappiness == <<"u","n","h","a","p","p","i","n","e","s","s">>
HelloWorld == <<"H","e","l","l","o"," ","w","o","r","l","d","."," ","H","o","w"," ","a","r","e"," ","y","o","u","?">>
MixedFeelings == <<"S","o"," ","A","N","G","R","Y","!","\t","s","o"," "," ","w","o","r","r","i","e","d","?","!"," ">>
MadeUp == <<"I"," ","m","a","d","e"," ","i","t","\n","G","r","e","a","t">>
AllWhiteSpace == <<" ","\t"," ">>
sadnessWord == <<"s","a","d","n","e","s","s">>

Samples == { EmptyTranscript, HAPPY_day, happy_day, unhappiness, HelloWorld,
             MixedFeelings, MadeUp, AllWhiteSpace, sadnessWord }

Transcripts == Samples \cup BoundedStrings(MaxLen)

(***************************************************************************)
(* JavaScript values that cross the HTTP boundary                          *)
(***************************************************************************)
\* a value of req.body.text: a string, or one of the non-strings a JSON
\* body can carry or omit
Undefined == [type |-> "undefined", str |-> <<>>]
Null == [type |-> "null", str |-> <<>>]
Number5 == [type |-> "number", str |-> <<>>]
Str(s) == [type |-> "string", str |-> s]

\* a thrown or rejected value: an Error object carries a message, a string
\* (the error code of a SpeechRecognitionErrorEvent) does not
NoError == [type |-> "none", message |-> ""]
ErrorObject(msg) == [type |-> "Error", message |-> msg]
ErrorCode(code) == [type |-> "string", message |-> code]

Reqs == 1..MaxReqs

NoPromise == [state |-> "none", transcript |-> <<>>, error |-> NoError]
NoEvent == [kind |-> "none", transcript |-> <<>>]
NoBody == [text |-> Undefined, audioData |-> FALSE,
           imageOperations |-> "undefined"]
NoLocals == [transcript |-> <<>>, voiceEmotion |-> EmptyObject,
             textEmotion |-> EmptyObject, textAnalysis |-> EmptyObject]

IdleReq == [ endpoint |-> "none", pc |-> "idle", body |-> NoBody,
             file |-> FALSE, promise |-> NoPromise,
             firstEvent |-> NoEvent, locals |-> NoLocals,
             failed |-> FALSE, responses |-> <<>> ]

(***************************************************************************)
(* The two components called directly on one transcript                    *)
(***************************************************************************)
FnInit ==
  /\ fnInput \in Transcripts
  /\ fnDone = {}
  /\ fnEmotion = EmptyObject
  /\ fnStats = EmptyObject
  /\ reqs = [r \in Reqs |-> IdleReq]
  /\ calls = {}

FnAnalyzeVoiceEmotion ==
  /\ "analyzeVoiceEmotion" \notin fnDone
  /\ fnEmotion' = analyzeVoiceEmotion(fnInput)
  /\ fnDone' = fnDone \cup {"analyzeVoiceEmotion"}
  /\ UNCHANGED <<reqs, calls, fnInput, fnStats>>

FnProcessText ==
  /\ "processText" \notin fnDone
  /\ fnStats' = processText(fnInput)
  /\ fnDone' = fnDone \cup {"processText"}
  /\ UNCHANGED <<reqs, calls, fnInput, fnEmotion>>

FnNext == FnAnalyzeVoiceEmotion \/ FnProcessText

SpecFn == FnInit /\ [][FnNext]_vars

(***************************************************************************)
(* Properties of the two components                                        *)
(***************************************************************************)
Categories == {"joy", "sadness", "anger", "fear"}

\* the lower-case form of a letter, told letter by letter
CaseFold ==
  [c \in {"A","D","G","H","I","M","N","O","P","R","S","Y"} |->
     CASE c = "A" -> "a" [] c = "D" -> "d" [] c = "G" -> "g" [] c = "H" -> "h"
       [] c = "I" -> "i" [] c = "M" -> "m" [] c = "N" -> "n" [] c = "O" -> "o"
       [] c = "P" -> "p" [] c = "R" -> "r" [] c = "S" -> "s" [] c = "Y" -> "y"]

LowerCased(s) ==
  [i \in 1..Len(s) |-> IF s[i] \in DOMAIN CaseFold THEN CaseFold[s[i]] ELSE s[i]]

\* w is a substring of s
OccursIn(w, s) ==
  \E i \in 1..(Len(s) - Len(w) + 1) : SubSeq(s, i, i + Len(w) - 1) = w

TriggerOccurs(category, s) ==
  \E k \in 1..Len(emotionKeywords[category]) :
    OccursIn(emotionKeywords[category][k], LowerCased(s))

VoiceDone == "analyzeVoiceEmotion" \in fnDone
StatsDone == "processText" \in fnDone

\* C1: every category of analyzeVoiceEmotion(T) is true exactly when one of
\* its trigger words is a substring of the lower-cased T; "HAPPY day" and
\* "happy day" both give joy only, the empty transcript gives all false.
C1_KeywordDetection ==
  VoiceDone =>
    /\ \A c \in Categories : fnEmotion[c] = TriggerOccurs(c, fnInput)
    /\ fnInput \in {HAPPY_day, happy_day} =>
         fnEmotion = [joy |-> TRUE, sadness |-> FALSE,
                      anger |-> FALSE, fear |-> FALSE]
    /\ fnInput = EmptyTranscript =>
         \A c \in Categories : fnEmotion[c] = FALSE

C1_Witness == VoiceDone /\ fnInput = HAPPY_day /\ fnEmotion["joy"]

\* C2: the result of analyzeVoiceEmotion has exactly the keys joy, sadness,
\* anger and fear, each a boolean; a category without a hit is present
\* with the value false.
C2_FourBooleanKeys ==
  VoiceDone =>
    /\ DOMAIN fnEmotion = Categories
    /\ \A c \in DOMAIN fnEmotion : fnEmotion[c] \in BOOLEAN
    /\ \A c \in Categories :
         ~TriggerOccurs(c, fnInput) =>
           (c \in DOMAIN fnEmotion /\ fnEmotion[c] = FALSE)

C2_Witness ==
  /\ VoiceDone
  /\ fnInput = MadeUp
  /\ "fear" \in DOMAIN fnEmotion
  /\ fnEmotion["fear"] = FALSE
  /\ fnEmotion["joy"] = TRUE

\* C3 as stated: analyzeVoiceEmotion("unhappiness") has sadness true.
C3_Unhappiness ==
  (VoiceDone /\ fnInput = unhappiness) => fnEmotion["sadness"] = TRUE

\* C3 (amended): "unhappy" is not a substring of "unhappiness" (the seventh
\* character is i, not y) and no other trigger word occurs in it, so
\* analyzeVoiceEmotion("unhappiness") has every category false, sadness
\* included; a trigger inside a longer word does match: "sadness"
\* contains "sad" and has sadness true.
C3_UnhappinessAmended ==
  /\ ~OccursIn(<<"u","n","h","a","p","p","y">>, unhappiness)
  /\ (VoiceDone /\ fnInput = unhappiness) =>
       \A c \in Categories : fnEmotion[c] = FALSE
  /\ (VoiceDone /\ fnInput = sadnessWord) =>
       fnEmotion = [joy |-> FALSE, sadness |-> TRUE,
                    anger |-> FALSE, fear |-> FALSE]

C3_Witness ==
  \/ VoiceDone /\ fnInput = unhappiness /\ ~fnEmotion["sadness"]
  \/ VoiceDone /\ fnInput = sadnessWord /\ fnEmotion["sadness"]

\* positions where a maximal run of characters of the class begins
RunStarts(s, class) ==
  {i \in 1..Len(s) : s[i] \in class /\ (i = 1 \/ s[i - 1] \notin class)}

\* the maximal runs of characters outside the class, as strings
RunsOutside(s, class) ==
  {SubSeq(s, i, j) : <<i, j>> \in
     {p \in (1..Len(s)) \X (1..Len(s)) :
        /\ p[1] <= p[2]
        /\ \A k \in p[1]..p[2] : s[k] \notin class
        /\ (p[1] = 1 \/ s[p[1] - 1] \in class)
        /\ (p[2] = Len(s) \/ s[p[2] + 1] \in class)}}

\* the tokens of a split on runs of white space, as a set
WhiteSpaceTokens(s) ==
  RunsOutside(s, WhiteSpace) \cup
    (IF Len(s) = 0 \/ s[1] \in WhiteSpace \/ s[Len(s)] \in WhiteSpace
       THEN {<<>>} ELSE {})

\* sentence fragments with a character that is not white space
NonBlankFragmentStarts(s) ==
  {i \in 1..Len(s) :
     /\ s[i] \notin Terminators
     /\ (i = 1 \/ s[i - 1] \in Terminators)
     /\ \E j \in i..Len(s) :
          /\ \A k \in i..j : s[k] \notin Terminators
          /\ s[j] \notin WhiteSpace}

\* C4: processText(T) has wordCount = the number of tokens of T split on
\* runs of white space, sentenceCount = the number of fragments of T split
\* on runs of . ! ? whose trimmed length is positive, uniqueWords = the
\* number of distinct lower-cased tokens, punctuation kept; for
\* "Hello world. How are you?" these are 5, 2 and 5.
C4_TextStatistics ==
  StatsDone =>
    /\ fnStats.wordCount = 1 + Cardinality(RunStarts(fnInput, WhiteSpace))
    /\ fnStats.sentenceCount = Cardinality(NonBlankFragmentStarts(fnInput))
    /\ fnStats.uniqueWords =
         Cardinality({LowerCased(t) : t \in WhiteSpaceTokens(fnInput)})
    /\ fnInput = HelloWorld =>
         /\ fnStats.wordCount = 5
         /\ fnStats.sentenceCount = 2
         /\ fnStats.uniqueWords = 5

C4_Witness == StatsDone /\ fnInput = HelloWorld /\ fnStats.uniqueWords = 5

\* C5: processText(T) has wordCount >= 1 for every T, the empty and the
\* all-white-space transcript included, so averageWordLength is a finite
\* quotient; for the empty transcript wordCount is 1 and averageWordLength
\* is 0.00.
C5_WordCountPositive ==
  StatsDone =>
    /\ fnStats.wordCount >= 1
    /\ fnStats.averageWordLength.kind = "finite"
    /\ fnInput = EmptyTranscript =>
         /\ fnStats.wordCount = 1
         /\ fnStats.averageWordLength.int = 0
         /\ fnStats.averageWordLength.frac = 0

C5_Witness ==
  /\ StatsDone
  /\ fnInput = EmptyTranscript
  /\ fnStats.wordCount = 1
  /\ fnStats.averageWordLength = [kind |-> "finite", int |-> 0, frac |-> 0]

C5_WitnessWhiteSpace ==
  StatsDone /\ fnInput = AllWhiteSpace /\ fnStats.wordCount = 2

(***************************************************************************)
(* External collaborators, at their interface                              *)
(***************************************************************************)
\* sentiment.analyze(phrase) of the lexicon library: an undefined phrase is
\* scored as '', any other non-string throws a TypeError in its tokenizer
sentimentThrows(phrase) == phrase.type \notin {"string", "undefined"}

\* the results the library can return: nothing to score gives 0, any other
\* text a negative or a positive score; comparative stands for
\* score / token count
sentimentOutcomes(phrase) ==
  IF phrase.type = "undefined" \/ Len(phrase.str) = 0
    THEN {[score |-> 0, comparative |-> 0]}
    ELSE {[score |-> sc, comparative |-> sc] : sc \in {-1, 1}}

\* the events a recognizer can deliver to onresult: the result list and
\* the index of the first new result
HAPPY == <<"H","A","P","P","Y">>
spaceDay == <<" ","d","a","y">>
sad == <<"s","a","d">>
ResultEvents == { [resultIndex |-> 0, results |-> <<HAPPY, spaceDay>>],
                  [resultIndex |-> 1, results |-> <<HAPPY_day, sad>>] }

\* the values of event.error a recognizer can deliver to onerror
ErrorEvents == { ErrorCode("no-speech"), ErrorObject("recognition failed") }

\* the text values and upload fields requests are sent with
TextValues == {Undefined, Null, Number5, Str(EmptyTranscript), Str(sad)}
UploadValues == { [file |-> FALSE, imageOperations |-> "valid"],
                  [file |-> TRUE, imageOperations |-> "valid"],
                  [file |-> TRUE, imageOperations |-> "malformed"] }

\* the text field of a multipart form is a string or absent
FormTextValues == {Undefined, Str(EmptyTranscript), Str(sad)}

\* requests that carry audioData are sent without text, and with a file
\* only together with well-formed operations
VoiceUploadValues == { [file |-> FALSE, imageOperations |-> "valid"],
                       [file |-> TRUE, imageOperations |-> "valid"] }

(***************************************************************************)
(* 1. VOICE RECOGNITION: recognizeVoice                                    *)
(***************************************************************************)
RECURSIVE concatResults(_, _)
\* for (i = event.resultIndex; i < event.results.length; i++)
\*   transcript += event.results[i][0].transcript   (i counted from 0)
concatResults(event, i) ==
  IF i >= Len(event.results) THEN <<>>
  ELSE event.results[i + 1] \o concatResults(event, i + 1)

onresultTranscript(event) == concatResults(event, event.resultIndex)

resolveOverwrite(promise, transcript) ==
  [state |-> "fulfilled", transcript |-> transcript, error |-> NoError]

\* resolve(transcript): settles a pending promise, ignored afterwards
resolve(promise, transcript) ==
  IF promise.state = "pending"
    THEN [state |-> "fulfilled", transcript |-> transcript, error |-> NoError]
    ELSE promise

\* reject(event.error): settles a pending promise, ignored afterwards
reject(promise, error) ==
  IF promise.state = "pending"
    THEN [state |-> "rejected", transcript |-> <<>>, error |-> error]
    ELSE promise

\* new Promise(...) with recognition.start()
recognizeVoice == [state |-> "pending", transcript |-> <<>>, error |-> NoError]

(***************************************************************************)
(* 2. EMOTION DETECTION: analyzeTextEmotion                                *)
(***************************************************************************)
analyzeTextEmotion(result) ==
  [ score |-> result.score,
    comparative |-> result.comparative,
    emotion |-> IF result.score > 0 THEN "positive"
                ELSE IF result.score < 0 THEN "negative" ELSE "neutral" ]

(***************************************************************************)
(* Responses                                                               *)
(***************************************************************************)
\* res.status(500).json({ success: false, error: error.message }): JSON
\* drops a key whose value is undefined, and only an Error has a message
jsonError(error) ==
  [ status |-> 500,
    body |-> IF error.type = "Error"
               THEN [success |-> FALSE, error |-> error.message]
               ELSE [success |-> FALSE] ]

voiceAnalyzeSuccess(transcript, voiceEmotion, textEmotion) ==
  [ status |-> 200,
    body |-> [ success |-> TRUE, transcript |-> transcript,
               voiceEmotion |-> voiceEmotion, textEmotion |-> textEmotion,
               timestamp |-> "Date" ] ]

textEmotionSuccessRenamed(emotion, analysis) ==
  [ status |-> 200,
    body |-> [ success |-> TRUE, emotion |-> emotion,
               analysis |-> analysis, timestamp |-> "Date" ] ]

textEmotionSuccess(emotion, analysis) ==
  [ status |-> 200,
    body |-> [ success |-> TRUE, emotion |-> emotion,
               textAnalysis |-> analysis, timestamp |-> "Date" ] ]

\* res.json({ success: true, score: result.score }) of the reduced server
reducedSuccess(result) ==
  [ status |-> 200, body |-> [success |-> TRUE, score |-> result.score] ]

imageEditSuccess ==
  [ status |-> 200,
    body |-> [ success |-> TRUE, originalPath |-> "uploads/file",
               editedPath |-> "uploads/edited.png", timestamp |-> "Date" ] ]

fullAnalysisSuccess(locals, imageResult) ==
  [ status |-> 200,
    body |-> [ success |-> TRUE, transcript |-> locals.transcript,
               emotionAnalysis |-> [ voice |-> locals.voiceEmotion,
                                     text |-> locals.textEmotion ],
               textAnalysis |-> locals.textAnalysis,
               imageEditResult |-> imageResult, timestamp |-> "Date" ] ]

\* res.json(...) ends the handler
Respond(req, response) ==
  [req EXCEPT !.responses = Append(@, response), !.pc = "responded"]

\* the catch block of a handler
Catch(req, error) ==
  [Respond(req, jsonError(error)) EXCEPT !.failed = TRUE]

\* a call of one of the two components that returned
Call(r, fn, input, output) ==
  [req |-> r, fn |-> fn, input |-> input, output |-> output]

(***************************************************************************)
(* API ENDPOINTS                                                           *)
(* A handler runs to completion between two awaits, so each action is the  *)
(* code of one handler from its entry, or from the settling of the promise *)
(* it awaits, to its next await or its response.                           *)
(***************************************************************************)
Init ==
  /\ reqs = [r \in Reqs |-> IdleReq]
  /\ calls = {}
  /\ fnInput = EmptyTranscript
  /\ fnDone = {}
  /\ fnEmotion = EmptyObject
  /\ fnStats = EmptyObject

fnVars == <<fnInput, fnDone, fnEmotion, fnStats>>

\* contexts are numbered in their order of arrival
CanStart(r) ==
  /\ reqs[r].pc = "idle"
  /\ IF r = 1 THEN TRUE ELSE reqs[r - 1].pc # "idle"

Arrive(r, endpoint, body, file) ==
  [reqs[r] EXCEPT !.endpoint = endpoint, !.body = body, !.file = file]

TypeErrorOf(what) == ErrorObject("TypeError: " \o what)

\* 1. POST /api/voice-analyze, up to "await recognizeVoice(audioData)"
VoiceAnalyze(r) ==
  /\ CanStart(r)
  /\ reqs' = [reqs EXCEPT ![r] =
       [Arrive(r, "voice-analyze", [NoBody EXCEPT !.audioData = TRUE], FALSE)
          EXCEPT !.promise = recognizeVoice, !.pc = "awaitVoice"]]
  /\ UNCHANGED <<calls, fnVars>>

\* recognition.onresult
RecognitionResult(r) ==
  /\ reqs[r].promise.state # "none"
  /\ \E event \in ResultEvents :
       LET transcript == onresultTranscript(event)
       IN  reqs' = [reqs EXCEPT ![r] =
             [@ EXCEPT !.promise = resolve(@, transcript),
                       !.firstEvent =
                          IF @.kind = "none"
                            THEN [kind |-> "result", transcript |-> transcript]
                            ELSE @]]
  /\ UNCHANGED <<calls, fnVars>>

\* recognition.onerror
RecognitionError(r) ==
  /\ reqs[r].promise.state # "none"
  /\ \E error \in ErrorEvents :
       reqs' = [reqs EXCEPT ![r] =
         [@ EXCEPT !.promise = reject(@, error),
                   !.firstEvent =
                      IF @.kind = "none"
                        THEN [kind |-> "error", transcript |-> <<>>]
                        ELSE @]]
  /\ UNCHANGED <<calls, fnVars>>

\* 1. POST /api/voice-analyze, after the await
VoiceAnalyzeResume(r) ==
  /\ reqs[r].endpoint = "voice-analyze"
  /\ reqs[r].pc = "awaitVoice"
  /\ reqs[r].promise.state \in {"fulfilled", "rejected"}
  /\ IF reqs[r].promise.state = "rejected"
       THEN /\ reqs' = [reqs EXCEPT ![r] = Catch(@, @.promise.error)]
            /\ UNCHANGED calls
       ELSE \E result \in sentimentOutcomes(Str(reqs[r].promise.transcript)) :
              LET transcript == reqs[r].promise.transcript
                  voiceEmotion == analyzeVoiceEmotion(transcript)
                  textEmotion == analyzeTextEmotion(result)
              IN  /\ reqs' = [reqs EXCEPT ![r] =
                       Respond(@, voiceAnalyzeSuccess(transcript, voiceEmotion,
                                                      textEmotion))]
                  /\ calls' = calls \cup
                       {Call(r, "analyzeVoiceEmotion", transcript, voiceEmotion)}
  /\ UNCHANGED fnVars

\* 2. POST /api/text-emotion of server.js
TextEmotion(r) ==
  /\ CanStart(r)
  /\ \E text \in TextValues :
       LET req == Arrive(r, "text-emotion", [NoBody EXCEPT !.text = text], FALSE)
       IN  IF sentimentThrows(text)
             THEN /\ reqs' = [reqs EXCEPT ![r] =
                       Catch(req, TypeErrorOf("input.toLowerCase"))]
                  /\ UNCHANGED calls
           ELSE IF text.type # "string"
             THEN /\ reqs' = [reqs EXCEPT ![r] =
                       Catch(req, TypeErrorOf("text.split"))]
                  /\ UNCHANGED calls
           ELSE \E result \in sentimentOutcomes(text) :
                  LET emotion == analyzeTextEmotion(result)
                      analysis == processText(text.str)
                  IN  /\ reqs' = [reqs EXCEPT ![r] =
                           Respond(req, textEmotionSuccess(emotion, analysis))]
                      /\ calls' = calls \cup
                           {Call(r, "processText", text.str, analysis)}
  /\ UNCHANGED fnVars

\* req.body.text || ''
orEmptyString(text) ==
  IF text.type \in {"undefined", "null"}
     \/ (text.type = "string" /\ Len(text.str) = 0)
    THEN Str(EmptyTranscript) ELSE text

\* POST /api/text-emotion of the reduced server: no try/catch, an exception
\* leaves the handler without a response of its own
TextEmotionReduced(r) ==
  /\ CanStart(r)
  /\ \E text \in TextValues :
       LET req == Arrive(r, "text-emotion-reduced",
                         [NoBody EXCEPT !.text = text], FALSE)
           phrase == orEmptyString(text)
       IN  IF sentimentThrows(phrase)
             THEN reqs' = [reqs EXCEPT ![r] =
                    [req EXCEPT !.failed = TRUE, !.pc = "escaped"]]
             ELSE \E result \in sentimentOutcomes(phrase) :
                    reqs' = [reqs EXCEPT ![r] =
                      Respond(req, reducedSuccess(result))]
  /\ UNCHANGED <<calls, fnVars>>

\* 3. POST /api/image-edit, up to "await editImage(...)"
ImageEdit(r) ==
  /\ CanStart(r)
  /\ \E upload \in UploadValues :
       LET req == Arrive(r, "image-edit",
                         [NoBody EXCEPT !.imageOperations =
                                           upload.imageOperations],
                         upload.file)
       IN  reqs' = [reqs EXCEPT ![r] =
             IF ~upload.file
               THEN Catch(req, TypeErrorOf("req.file.path"))
             ELSE IF upload.imageOperations # "valid"
               THEN Catch(req, ErrorObject("SyntaxError: JSON.parse"))
             ELSE [req EXCEPT !.pc = "awaitImage"]]
  /\ UNCHANGED <<calls, fnVars>>

\* 3. POST /api/image-edit, after the await: editImage resolved or rejected
ImageEditResume(r) ==
  /\ reqs[r].endpoint = "image-edit"
  /\ reqs[r].pc = "awaitImage"
  /\ \E resolved \in BOOLEAN :
       reqs' = [reqs EXCEPT ![r] =
         IF resolved THEN Respond(@, imageEditSuccess)
         ELSE Catch(@, ErrorObject("image.toFile failed"))]
  /\ UNCHANGED <<calls, fnVars>>

\* 4. POST /api/full-analysis from the transcript on: the two emotion
\* analyses, the text analysis, then the image step or the response
fullAnalysisFrom(r, req, transcript, result) ==
  IF transcript.type # "string"
    THEN [req |-> Catch(req, TypeErrorOf("text.toLowerCase")), calls |-> {}]
  ELSE
    LET locals == [ transcript |-> transcript.str,
                    voiceEmotion |-> analyzeVoiceEmotion(transcript.str),
                    textEmotion |-> analyzeTextEmotion(result),
                    textAnalysis |-> processText(transcript.str) ]
        made == { Call(r, "analyzeVoiceEmotion", transcript.str,
                       locals.voiceEmotion),
                  Call(r, "processText", transcript.str,
                       locals.textAnalysis) }
        req1 == [req EXCEPT !.locals = locals]
    IN  IF req.file /\ req.body.imageOperations # "undefined"
          THEN IF req.body.imageOperations = "malformed"
                 THEN [req |-> Catch(req1, ErrorObject("SyntaxError: JSON.parse")),
                       calls |-> made]
                 ELSE [req |-> [req1 EXCEPT !.pc = "awaitImage"],
                       calls |-> made]
          ELSE [req |-> Respond(req1, fullAnalysisSuccess(locals, "null")),
                calls |-> made]

\* 4. POST /api/full-analysis, up to its first await or its response
FullAnalysis(r) ==
  /\ CanStart(r)
  /\ \E audioData \in BOOLEAN :
     \E upload \in IF audioData THEN VoiceUploadValues ELSE UploadValues :
     \E text \in IF audioData THEN {Undefined} ELSE FormTextValues :
       LET req == Arrive(r, "full-analysis",
                         [ text |-> text, audioData |-> audioData,
                           imageOperations |-> upload.imageOperations ],
                         upload.file)
       IN  IF audioData
             THEN /\ reqs' = [reqs EXCEPT ![r] =
                       [req EXCEPT !.promise = recognizeVoice,
                                   !.pc = "awaitVoice"]]
                  /\ UNCHANGED calls
             ELSE \E result \in sentimentOutcomes(text) :
                    LET next == fullAnalysisFrom(r, req, text, result)
                    IN  /\ reqs' = [reqs EXCEPT ![r] = next.req]
                        /\ calls' = calls \cup next.calls
  /\ UNCHANGED fnVars

\* 4. POST /api/full-analysis, after "await recognizeVoice(audioData)"
FullAnalysisVoiceResume(r) ==
  /\ reqs[r].endpoint = "full-analysis"
  /\ reqs[r].pc = "awaitVoice"
  /\ reqs[r].promise.state \in {"fulfilled", "rejected"}
  /\ IF reqs[r].promise.state = "rejected"
       THEN /\ reqs' = [reqs EXCEPT ![r] = Catch(@, @.promise.error)]
            /\ UNCHANGED calls
       ELSE \E result \in sentimentOutcomes(Str(reqs[r].promise.transcript)) :
              LET next == fullAnalysisFrom(r, reqs[r],
                                           Str(reqs[r].promise.transcript),
                                           result)
              IN  /\ reqs' = [reqs EXCEPT ![r] = next.req]
                  /\ calls' = calls \cup next.calls
  /\ UNCHANGED fnVars

\* 4. POST /api/full-analysis, after "await editImage(...)"
FullAnalysisImageResume(r) ==
  /\ reqs[r].endpoint = "full-analysis"
  /\ reqs[r].pc = "awaitImage"
  /\ \E resolved \in BOOLEAN :
       reqs' = [reqs EXCEPT ![r] =
         IF resolved
           THEN Respond(@, fullAnalysisSuccess(@.locals, "uploads/edited.png"))
           ELSE Catch(@, ErrorObject("image.toFile failed"))]
  /\ UNCHANGED <<calls, fnVars>>

Next ==
  \E r \in Reqs :
    \/ VoiceAnalyze(r)
    \/ RecognitionResult(r)
    \/ RecognitionError(r)
    \/ VoiceAnalyzeResume(r)
    \/ TextEmotion(r)
    \/ TextEmotionReduced(r)
    \/ ImageEdit(r)
    \/ ImageEditResume(r)
    \/ FullAnalysis(r)
    \/ FullAnalysisVoiceResume(r)
    \/ FullAnalysisImageResume(r)

Spec == Init /\ [][Next]_vars

(***************************************************************************)
(* Properties of the request handlers                                      *)
(***************************************************************************)
Responded(r) == Len(reqs[r].responses) > 0
ResponseBody(r) == reqs[r].responses[1].body
Succeeded(r) == Responded(r) /\ ResponseBody(r).success = TRUE
TextEndpoints == {"text-emotion", "text-emotion-reduced"}
StatsFields == {"wordCount", "sentenceCount", "averageWordLength", "uniqueWords"}

\* C6: a POST /api/text-emotion whose body has no text, or text = null, is
\* processed as if text were '': the components are invoked on '' and the
\* request is answered with a success response, not an error response.
C6_MissingTextIsEmpty ==
  \A r \in Reqs :
    ( /\ reqs[r].endpoint \in TextEndpoints
      /\ reqs[r].body.text.type \in {"undefined", "null"} )
    => /\ Succeeded(r)
       /\ \E c \in calls : /\ c.req = r
                           /\ c.fn = "processText"
                           /\ c.input = EmptyTranscript

\* C7 as stated: every success response of POST /api/text-emotion has the
\* key emotion holding the joy/sadness/anger/fear mapping of the keyword
\* detector and the key textAnalysis holding wordCount, sentenceCount,
\* averageWordLength and uniqueWords.
C7_TextEmotionResponse ==
  \A r \in Reqs :
    (reqs[r].endpoint \in TextEndpoints /\ Succeeded(r)) =>
      /\ {"emotion", "textAnalysis"} \subseteq DOMAIN ResponseBody(r)
      /\ DOMAIN ResponseBody(r).emotion = Categories
      /\ \A c \in Categories : ResponseBody(r).emotion[c] \in BOOLEAN
      /\ DOMAIN ResponseBody(r).textAnalysis = StatsFields

\* C7 (amended): every success response of POST /api/text-emotion of
\* server.js has the key emotion holding the sentiment record (score,
\* comparative, and emotion = positive, negative or neutral by the sign of
\* score), not the keyword mapping, and the key textAnalysis holding
\* processText of the text with its four fields; the success response of
\* the reduced server has the keys success and score only.
C7_TextEmotionResponseAmended ==
  \A r \in Reqs :
    /\ (reqs[r].endpoint = "text-emotion" /\ Succeeded(r)) =>
         /\ {"emotion", "textAnalysis"} \subseteq DOMAIN ResponseBody(r)
         /\ DOMAIN ResponseBody(r).emotion = {"score", "comparative", "emotion"}
         /\ ResponseBody(r).emotion.emotion =
              ( IF ResponseBody(r).emotion.score > 0 THEN "positive"
                ELSE IF ResponseBody(r).emotion.score < 0 THEN "negative"
                ELSE "neutral" )
         /\ DOMAIN ResponseBody(r).textAnalysis = StatsFields
         /\ ResponseBody(r).textAnalysis.wordCount =
              1 + Cardinality(RunStarts(reqs[r].body.text.str, WhiteSpace))
    /\ (reqs[r].endpoint = "text-emotion-reduced" /\ Succeeded(r)) =>
         DOMAIN ResponseBody(r) = {"success", "score"}

C7_Witness ==
  \E r \in Reqs :
    /\ reqs[r].endpoint = "text-emotion"
    /\ Succeeded(r)
    /\ reqs[r].body.text = Str(sad)
    /\ ResponseBody(r).emotion.emotion = "negative"
    /\ ResponseBody(r).textAnalysis.uniqueWords = 1

\* C8: in every handler, whenever a step fails (a thrown exception, a
\* rejected speech-to-text or image-edit promise) the failure is caught and
\* answered with a response carrying success:false and a message field;
\* no failure leaves the handler unanswered.
C8_FailuresAnswered ==
  \A r \in Reqs :
    reqs[r].failed =>
      /\ reqs[r].pc = "responded"
      /\ Len(reqs[r].responses) = 1
      /\ ResponseBody(r).success = FALSE
      /\ "error" \in DOMAIN ResponseBody(r)

UsesSpeech(r) == reqs[r].promise.state # "none"

FirstEventDecides(r) ==
  /\ Len(reqs[r].responses) <= 1
  /\ Responded(r) => reqs[r].firstEvent.kind # "none"
  /\ (\E c \in calls : c.req = r) => reqs[r].firstEvent.kind = "result"
  /\ \A c \in calls : c.req = r => c.input = reqs[r].firstEvent.transcript
  /\ (Responded(r) /\ reqs[r].firstEvent.kind = "error") =>
       ResponseBody(r).success = FALSE

\* a recognizer event after the first changes neither the settled promise
\* (the transcript) nor the response
LaterEventsChangeNothing ==
  \A r \in Reqs :
    reqs[r].firstEvent.kind # "none" =>
      /\ reqs'[r].promise = reqs[r].promise
      /\ reqs'[r].firstEvent = reqs[r].firstEvent
      /\ Responded(r) => reqs'[r].responses = reqs[r].responses

C10_OriginalState ==
  \A r \in Reqs :
    UsesSpeech(r) =>
      /\ FirstEventDecides(r)
      /\ (Responded(r) /\ reqs[r].firstEvent.kind = "result") =>
           /\ ResponseBody(r).success = TRUE
           /\ ResponseBody(r).transcript = reqs[r].firstEvent.transcript

C10_AmendedState ==
  \A r \in Reqs :
    UsesSpeech(r) =>
      /\ FirstEventDecides(r)
      /\ (Responded(r) /\ reqs[r].firstEvent.kind = "result") =>
           IF ResponseBody(r).success
             THEN ResponseBody(r).transcript = reqs[r].firstEvent.transcript
             ELSE /\ reqs[r].endpoint = "full-analysis"
                  /\ reqs[r].file
                  /\ reqs[r].body.imageOperations # "undefined"
                  /\ reqs[r].locals.transcript = reqs[r].firstEvent.transcript

====
